---- MODULE Spec2Model ----
(***************************************************************************)
(* Cramify front-end: the upload/generate Form (Home, app/page.tsx), the   *)
(* Gate (LoginModal), the UserMenu and the Session Provider (AuthProvider).*)
(* One action per event handler or async continuation.  React state is one *)
(* variable per useState cell; every handler runs to its next await.       *)
(***************************************************************************)
EXTENDS Integers, Sequences, FiniteSets, TLC

\* ------------------------------------------------------------------ bounds
MaxFiles == 2        \* longest FileList the user picks
MaxRequests == 2     \* fetch() calls issued in one run

\* --------------------------------------------------------------- constants
Null == "<null>"                     \* JavaScript null for string | null cells
NoUrl == 0                           \* generatedPdfUrl === null
Files == {"lecture1.pdf", "lecture2.pdf"}
Users == {"alice"}
GenerateFailedMessage == "Failed to generate cheat sheet"

\* event.target.files: null, or a FileList {length, item(0..length-1)}
NullFileList == [isNull |-> TRUE]
FileLists ==
  UNION {[isNull : {FALSE}, length : {n}, item : [0..(n - 1) -> Files]] : n \in 0..MaxFiles}
FileInputs == FileLists \cup {NullFileList}

\* Array.from(event.target.files || [])
ArrayFrom(fl) ==
  IF fl.isNull THEN <<>> ELSE [i \in 1..fl.length |-> fl.item[i - 1]]

\* Identity-provider error strings, as the token sequences that
\* String.prototype.includes is asked about.
KnownCodes ==
  <<"auth/invalid-credential", "auth/user-not-found", "auth/wrong-password",
    "auth/email-already-in-use", "auth/weak-password", "auth/invalid-email",
    "auth/popup-closed-by-user">>
ErrorMessages ==
  {<<"Firebase: Error (", KnownCodes[i], ").">> : i \in 1..Len(KnownCodes)}
    \cup {<<"Firebase: Error (", "auth/network-request-failed", ").">>,
          <<"auth/wrong-password", " after ", "auth/invalid-credential">>}
\* the two messages the whole-application specification draws from
\* user.getIdToken() resolves to a token or rejects
Tokens == {"jwt-1", "jwt-2"}
Rejected == "<rejected>"

SampleErrorMessages ==
  {<<"Firebase: Error (", "auth/wrong-password", ").">>,
   <<"Firebase: Error (", "auth/network-request-failed", ").">>}

VARIABLES
  \* Home (page.tsx)
  selectedFiles,     \* useState<File[]>([])
  isGenerating,      \* useState(false)
  error,             \* useState<string | null>(null)
  generatedPdfUrl,   \* useState<string | null>(null); object URLs are 1..urlCount
  showLoginModal,    \* useState(false): the Gate is Open
  \* network and browser
  calls,             \* performGeneration invocations suspended at an await
  fetchCount,        \* fetch() calls made so far
  urlCount,          \* URL.createObjectURL calls made so far
  revokedUrls,       \* object URLs passed to URL.revokeObjectURL
  \* AuthProvider (auth/AuthContext.tsx)
  user,              \* useState<User | null>(null)
  loading,           \* useState(true)
  tokenCall,         \* a getAuthToken invocation: idle, suspended at its await, or done
  \* identity provider (auth/firebase)
  idpUser,           \* the provider's current user
  \* LoginModal
  isSignUp,          \* useState(false)
  modalError,        \* useState<string | null>(null)
  modalLoading,      \* useState(false)
  authCall,          \* handleGoogleSignIn / handleEmailAuth suspended at its await
  \* history
  pendingGenerate,   \* "deferred": handleGenerate took Route 1 and the Gate has not
                     \* closed since; "dismissed": that Gate was then dismissed and
                     \* handleGenerate has not run since; "none" otherwise
  lastEvent          \* the handler that ran last, with its input

formVars == <<selectedFiles, isGenerating, error, generatedPdfUrl>>
netVars == <<calls, fetchCount, urlCount, revokedUrls>>
sessionVars == <<user, loading, idpUser, tokenCall>>
modalVars == <<isSignUp, modalError, modalLoading, authCall>>
vars == <<selectedFiles, isGenerating, error, generatedPdfUrl, showLoginModal,
          calls, fetchCount, urlCount, revokedUrls, user, loading, tokenCall,
          idpUser, isSignUp, modalError, modalLoading, authCall, pendingGenerate, lastEvent>>

Event(n) == [name |-> n]
NoCall == [stage |-> "idle"]

Init ==
  /\ selectedFiles = <<>>
  /\ isGenerating = FALSE
  /\ error = Null
  /\ generatedPdfUrl = NoUrl
  /\ showLoginModal = FALSE
  /\ calls = <<>>
  /\ fetchCount = 0
  /\ urlCount = 0
  /\ revokedUrls = {}
  /\ user = Null
  /\ loading = TRUE
  /\ tokenCall = [stage |-> "idle"]
  /\ idpUser \in Users \cup {Null}
  /\ isSignUp = FALSE
  /\ modalError = Null
  /\ modalLoading = FALSE
  /\ authCall = NoCall
  /\ pendingGenerate = "none"
  /\ lastEvent = Event("init")

\* ------------------------------------------------------------------- Home
\* variant: the new files are appended to the selection
handleFileChange_Appends(fl) ==
  /\ selectedFiles' = selectedFiles \o ArrayFrom(fl)
  /\ lastEvent' = [name |-> "select", files |-> fl]
  /\ UNCHANGED <<isGenerating, error, generatedPdfUrl, showLoginModal, netVars,
                 sessionVars, modalVars, pendingGenerate>>

\* variant: choosing files also clears the error
handleFileChange_ClearsError(fl) ==
  /\ selectedFiles' = ArrayFrom(fl)
  /\ error' = Null
  /\ lastEvent' = [name |-> "select", files |-> fl]
  /\ UNCHANGED <<isGenerating, generatedPdfUrl, showLoginModal, netVars,
                 sessionVars, modalVars, pendingGenerate>>

\* <input type="file" onChange={handleFileChange}>
handleFileChange(fl) ==
  /\ selectedFiles' = ArrayFrom(fl)
  /\ lastEvent' = [name |-> "select", files |-> fl]
  /\ UNCHANGED <<isGenerating, error, generatedPdfUrl, showLoginModal, netVars,
                 sessionVars, modalVars, pendingGenerate>>

\* variant: the parts are appended in reverse order
BuildFormData_Reversed(files) ==
  [i \in 1..Len(files) |-> [field |-> "files", file |-> files[Len(files) + 1 - i]]]

\* formData.append('files', file) for each selected file, in order
BuildFormData(files) == [i \in 1..Len(files) |-> [field |-> "files", file |-> files[i]]]

\* variant: the previous error is not cleared
performGeneration_KeepsError ==
  /\ isGenerating' = TRUE
  /\ generatedPdfUrl' = NoUrl
  /\ calls' = Append(calls, [stage |-> "fetch", body |-> BuildFormData(selectedFiles)])
  /\ fetchCount' = fetchCount + 1
  /\ UNCHANGED <<selectedFiles, error, showLoginModal, urlCount, revokedUrls>>

\* performGeneration up to `await fetch(...)`
performGeneration ==
  /\ isGenerating' = TRUE
  /\ error' = Null
  /\ generatedPdfUrl' = NoUrl
  /\ calls' = Append(calls, [stage |-> "fetch", body |-> BuildFormData(selectedFiles)])
  /\ fetchCount' = fetchCount + 1
  /\ UNCHANGED <<selectedFiles, showLoginModal, urlCount, revokedUrls>>

\* variant: the button is not disabled while generating
GenerateButtonEnabled_NotDisabled == Len(selectedFiles) > 0

\* The Generate button is rendered when files are selected, disabled while generating
GenerateButtonEnabled == Len(selectedFiles) > 0 /\ ~isGenerating

\* variant: the session is not checked
handleGenerate_SkipsSessionCheck ==
  /\ GenerateButtonEnabled
  /\ fetchCount < MaxRequests
  /\ performGeneration
  /\ pendingGenerate' = "none"
  /\ lastEvent' = Event("generate")
  /\ UNCHANGED <<sessionVars, modalVars>>

\* onClick={handleGenerate}
handleGenerate ==
  /\ GenerateButtonEnabled
  /\ IF user = Null
       THEN /\ showLoginModal' = TRUE
            /\ pendingGenerate' = "deferred"
            /\ UNCHANGED <<formVars, netVars>>
       ELSE /\ fetchCount < MaxRequests
            /\ performGeneration
            /\ pendingGenerate' = "none"
  /\ lastEvent' = Event("generate")
  /\ UNCHANGED <<sessionVars, modalVars>>

\* variant: no finally block
GenerationFailed_NoFinally(i) ==
  /\ error' = GenerateFailedMessage
  /\ calls' = SubSeq(calls, 1, i - 1) \o SubSeq(calls, i + 1, Len(calls))
  /\ UNCHANGED <<selectedFiles, isGenerating, generatedPdfUrl, urlCount>>

\* the catch and finally blocks of performGeneration
GenerationFailed(i) ==
  /\ error' = GenerateFailedMessage
  /\ isGenerating' = FALSE
  /\ calls' = SubSeq(calls, 1, i - 1) \o SubSeq(calls, i + 1, Len(calls))
  /\ UNCHANGED <<selectedFiles, generatedPdfUrl, urlCount>>

\* `await fetch` settles: a response (ok or not) or a rejection
FetchSettled(i, outcome) ==
  /\ i \in 1..Len(calls)
  /\ calls[i].stage = "fetch"
  /\ IF outcome = "ok"
       THEN /\ calls' = [calls EXCEPT ![i].stage = "blob"]
            /\ UNCHANGED <<formVars, urlCount>>
       ELSE GenerationFailed(i)
  /\ lastEvent' = [name |-> "fetchSettled", outcome |-> outcome]
  /\ UNCHANGED <<showLoginModal, fetchCount, revokedUrls, sessionVars, modalVars,
                 pendingGenerate>>

\* `await response.blob()` settles; on success URL.createObjectURL mints a new URL
BlobSettled(i, outcome) ==
  /\ i \in 1..Len(calls)
  /\ calls[i].stage = "blob"
  /\ IF outcome = "ok"
       THEN /\ urlCount' = urlCount + 1
            /\ generatedPdfUrl' = urlCount + 1
            /\ isGenerating' = FALSE
            /\ calls' = SubSeq(calls, 1, i - 1) \o SubSeq(calls, i + 1, Len(calls))
            /\ UNCHANGED <<selectedFiles, error>>
       ELSE GenerationFailed(i)
  /\ lastEvent' = [name |-> "blobSettled", outcome |-> outcome]
  /\ UNCHANGED <<showLoginModal, fetchCount, revokedUrls, sessionVars, modalVars,
                 pendingGenerate>>

\* The "Create Another" button is rendered only while generatedPdfUrl is set
CreateAnotherAvailable == generatedPdfUrl # NoUrl

\* "Create Another" onClick
CreateAnother ==
  /\ CreateAnotherAvailable
  /\ selectedFiles' = <<>>
  /\ generatedPdfUrl' = NoUrl
  /\ error' = Null
  /\ lastEvent' = Event("reset")
  /\ UNCHANGED <<isGenerating, showLoginModal, netVars, sessionVars, modalVars,
                 pendingGenerate>>

\* variant: closing the Gate runs the deferred generation
onClose_Resumes ==
  /\ showLoginModal
  /\ showLoginModal' = FALSE
  /\ pendingGenerate' = (IF pendingGenerate = "deferred" THEN "dismissed" ELSE pendingGenerate)
  /\ lastEvent' = [name |-> "dismiss", deferred |-> pendingGenerate = "deferred"]
  /\ IF pendingGenerate = "deferred" /\ fetchCount < MaxRequests
       THEN /\ isGenerating' = TRUE
            /\ error' = Null
            /\ generatedPdfUrl' = NoUrl
            /\ calls' = Append(calls, [stage |-> "fetch", body |-> BuildFormData(selectedFiles)])
            /\ fetchCount' = fetchCount + 1
            /\ UNCHANGED <<selectedFiles, urlCount, revokedUrls>>
       ELSE UNCHANGED <<formVars, netVars>>
  /\ UNCHANGED <<sessionVars, modalVars>>

\* LoginModal onClose={() => setShowLoginModal(false)}, wired to the X button
onClose ==
  /\ showLoginModal
  /\ showLoginModal' = FALSE
  /\ pendingGenerate' = (IF pendingGenerate = "deferred" THEN "dismissed" ELSE pendingGenerate)
  /\ lastEvent' = [name |-> "dismiss", deferred |-> pendingGenerate = "deferred"]
  /\ UNCHANGED <<formVars, netVars, sessionVars, modalVars>>

\* variant: the success callback runs the deferred generation
onSuccess_Resumes ==
  /\ showLoginModal' = FALSE
  /\ pendingGenerate' = (IF pendingGenerate = "deferred" THEN "none" ELSE pendingGenerate)
  /\ IF pendingGenerate = "deferred" /\ fetchCount < MaxRequests
       THEN /\ isGenerating' = TRUE
            /\ error' = Null
            /\ generatedPdfUrl' = NoUrl
            /\ calls' = Append(calls, [stage |-> "fetch", body |-> BuildFormData(selectedFiles)])
            /\ fetchCount' = fetchCount + 1
            /\ UNCHANGED <<selectedFiles, urlCount, revokedUrls>>
       ELSE UNCHANGED <<formVars, netVars>>

\* LoginModal onSuccess={() => { setShowLoginModal(false); }}
onSuccess ==
  /\ showLoginModal' = FALSE
  /\ pendingGenerate' = (IF pendingGenerate = "deferred" THEN "none" ELSE pendingGenerate)
  /\ UNCHANGED <<formVars, netVars>>

\* UserMenu "Sign In" button, rendered while there is no user
onSignInClick ==
  /\ user = Null
  /\ showLoginModal' = TRUE
  /\ lastEvent' = Event("signInClick")
  /\ UNCHANGED <<formVars, netVars, sessionVars, modalVars, pendingGenerate>>

\* ------------------------------------------------------------- LoginModal
\* errorMessage.includes(code)
Includes(errorMessage, code) == \E i \in 1..Len(errorMessage) : errorMessage[i] = code

\* variant: the auth/wrong-password branch is missing
getFriendlyErrorMessage_NoWrongPassword(errorMessage) ==
  IF Includes(errorMessage, "auth/invalid-credential")
    THEN "Invalid email or password. Please try again."
  ELSE IF Includes(errorMessage, "auth/user-not-found")
    THEN "No account found with this email."
  ELSE IF Includes(errorMessage, "auth/email-already-in-use")
    THEN "This email is already registered. Try signing in instead."
  ELSE IF Includes(errorMessage, "auth/weak-password")
    THEN "Password should be at least 6 characters."
  ELSE IF Includes(errorMessage, "auth/invalid-email")
    THEN "Please enter a valid email address."
  ELSE IF Includes(errorMessage, "auth/popup-closed-by-user")
    THEN "Sign-in cancelled. Please try again."
  ELSE "Sign-in failed. Please try again."

getFriendlyErrorMessage(errorMessage) ==
  IF Includes(errorMessage, "auth/invalid-credential")
    THEN "Invalid email or password. Please try again."
  ELSE IF Includes(errorMessage, "auth/user-not-found")
    THEN "No account found with this email."
  ELSE IF Includes(errorMessage, "auth/wrong-password")
    THEN "Incorrect password. Please try again."
  ELSE IF Includes(errorMessage, "auth/email-already-in-use")
    THEN "This email is already registered. Try signing in instead."
  ELSE IF Includes(errorMessage, "auth/weak-password")
    THEN "Password should be at least 6 characters."
  ELSE IF Includes(errorMessage, "auth/invalid-email")
    THEN "Please enter a valid email address."
  ELSE IF Includes(errorMessage, "auth/popup-closed-by-user")
    THEN "Sign-in cancelled. Please try again."
  ELSE "Sign-in failed. Please try again."

\* The modal renders (and its buttons exist) only while isOpen; both sign-in
\* buttons carry disabled={loading}
SignInControlsEnabled == showLoginModal /\ ~modalLoading

\* handleGoogleSignIn / handleEmailAuth up to their await
StartAuth(kind) ==
  /\ SignInControlsEnabled
  /\ modalLoading' = TRUE
  /\ modalError' = Null
  /\ authCall' = [stage |-> "pending", kind |-> kind]
  /\ lastEvent' = [name |-> "authStart", kind |-> kind]
  /\ UNCHANGED <<formVars, netVars, showLoginModal, sessionVars, isSignUp,
                 pendingGenerate>>

handleGoogleSignIn == StartAuth("google")

handleEmailAuth == StartAuth(IF isSignUp THEN "signUp" ELSE "signIn")

\* The rest of handleGoogleSignIn / handleEmailAuth, once {user, error} is back
AuthSettled ==
  /\ authCall.stage \in {"user", "error"}
  /\ IF authCall.stage = "error"
       THEN /\ modalError' = getFriendlyErrorMessage(authCall.error)
            /\ modalLoading' = FALSE
            /\ lastEvent' = Event("authError")
            /\ UNCHANGED <<formVars, netVars, showLoginModal, pendingGenerate>>
       ELSE /\ onSuccess
            /\ lastEvent' = [name |-> "authSuccess", deferred |-> pendingGenerate = "deferred"]
            /\ UNCHANGED <<modalError, modalLoading>>
  /\ authCall' = NoCall
  /\ UNCHANGED <<sessionVars, isSignUp>>

\* "Don't have an account? Sign up" / "Already have an account? Sign in"
ToggleSignUp ==
  /\ showLoginModal
  /\ isSignUp' = ~isSignUp
  /\ modalError' = Null
  /\ lastEvent' = [name |-> "toggle", hadError |-> modalError # Null]
  /\ UNCHANGED <<formVars, netVars, showLoginModal, sessionVars, modalLoading,
                 authCall, pendingGenerate>>

\* ------------------------------------------------------ identity provider
\* signInWithGoogle / signInWithEmail / signUpWithEmail resolve to {user, error}
IdpSignedIn(u) ==
  /\ authCall.stage = "pending"
  /\ idpUser' = u
  /\ authCall' = [authCall EXCEPT !.stage = "user"]
  /\ lastEvent' = Event("idpSignedIn")
  /\ UNCHANGED <<formVars, netVars, showLoginModal, user, loading, tokenCall,
                 isSignUp, modalError, modalLoading, pendingGenerate>>

IdpRefused(msg) ==
  /\ authCall.stage = "pending"
  /\ authCall' = [stage |-> "error", kind |-> authCall.kind, error |-> msg]
  /\ lastEvent' = Event("idpRefused")
  /\ UNCHANGED <<formVars, netVars, showLoginModal, sessionVars, isSignUp,
                 modalError, modalLoading, pendingGenerate>>

\* UserMenu handleLogout: await signOut()
handleLogout ==
  /\ user # Null
  /\ idpUser' = Null
  /\ lastEvent' = Event("logout")
  /\ UNCHANGED <<formVars, netVars, showLoginModal, user, loading, tokenCall,
                 modalVars, pendingGenerate>>

\* --------------------------------------------------------- AuthProvider
\* variant: setLoading(false) is missing
onAuthChange_KeepsLoading ==
  /\ loading \/ user # idpUser
  /\ user' = idpUser
  /\ lastEvent' = Event("authChange")
  /\ UNCHANGED <<formVars, netVars, showLoginModal, loading, idpUser, tokenCall,
                 modalVars, pendingGenerate>>

\* onAuthChange((user) => { setUser(user); setLoading(false); })
onAuthChange ==
  /\ loading \/ user # idpUser
  /\ user' = idpUser
  /\ loading' = FALSE
  /\ lastEvent' = Event("authChange")
  /\ UNCHANGED <<formVars, netVars, showLoginModal, idpUser, tokenCall, modalVars,
                 pendingGenerate>>

\* getAuthToken up to `await user.getIdToken()`, or to `return null`
getAuthToken ==
  /\ tokenCall.stage \in {"idle", "returned"}
  /\ tokenCall' = (IF user # Null THEN [stage |-> "pending", user |-> user]
                                  ELSE [stage |-> "returned", value |-> Null])
  /\ lastEvent' = Event("getAuthToken")
  /\ UNCHANGED <<formVars, netVars, showLoginModal, user, loading, idpUser,
                 modalVars, pendingGenerate>>

\* variant: no try/catch around getIdToken
IdTokenSettled_NoCatch(t) ==
  /\ tokenCall.stage = "pending"
  /\ tokenCall' = (IF t = Rejected THEN [stage |-> "thrown"]
                                   ELSE [stage |-> "returned", value |-> t])
  /\ lastEvent' = [name |-> "idTokenSettled", outcome |-> t]
  /\ UNCHANGED <<formVars, netVars, showLoginModal, user, loading, idpUser,
                 modalVars, pendingGenerate>>

\* `await user.getIdToken()` settles: the token is returned, a rejection is
\* caught and null returned
IdTokenSettled(t) ==
  /\ tokenCall.stage = "pending"
  /\ tokenCall' = [stage |-> "returned", value |-> (IF t = Rejected THEN Null ELSE t)]
  /\ lastEvent' = [name |-> "idTokenSettled", outcome |-> t]
  /\ UNCHANGED <<formVars, netVars, showLoginModal, user, loading, idpUser,
                 modalVars, pendingGenerate>>

\* ------------------------------------------------------- specifications
FormStep ==
  \/ \E fl \in FileInputs : handleFileChange(fl)
  \/ handleGenerate
  \/ \E i \in 1..MaxRequests, o \in {"ok", "notOk", "rejected"} : FetchSettled(i, o)
  \/ \E i \in 1..MaxRequests, o \in {"ok", "rejected"} : BlobSettled(i, o)
  \/ CreateAnother

GateStep ==
  \/ onClose
  \/ onSignInClick
  \/ handleGoogleSignIn
  \/ handleEmailAuth
  \/ AuthSettled
  \/ ToggleSignUp
  \/ \E u \in Users : IdpSignedIn(u)
  \/ handleLogout
  \/ onAuthChange

\* The whole application
Next ==
  \/ FormStep
  \/ GateStep
  \/ \E msg \in SampleErrorMessages : IdpRefused(msg)

Spec == Init /\ [][Next]_vars

\* The Gate and the Session Provider alone, under every error message
NextGate ==
  \/ GateStep
  \/ \E msg \in ErrorMessages : IdpRefused(msg)

GateSpec == Init /\ [][NextGate]_vars

\* The Session Provider with a caller of its token accessor, and the Gate
NextSession ==
  \/ GateStep
  \/ \E msg \in SampleErrorMessages : IdpRefused(msg)
  \/ getAuthToken
  \/ \E t \in Tokens \cup {Rejected} : IdTokenSettled(t)

SessionSpec == Init /\ [][NextSession]_vars

\* ----------------------------------------------------------------- claims
IsEvent(n) == lastEvent'.name = n
Succeeded == ~isGenerating /\ generatedPdfUrl # NoUrl
Failed == ~isGenerating /\ error # Null
Idle == ~isGenerating /\ generatedPdfUrl = NoUrl /\ error = Null

\* C1: a handleGenerate step taken while user is null issues no fetch and
\* leaves the generation state alone; it only sets showLoginModal.
C1_NoSessionOnlyOpensGate ==
  [][(IsEvent("generate") /\ user = Null) =>
       /\ showLoginModal'
       /\ fetchCount' = fetchCount /\ calls' = calls
       /\ UNCHANGED <<formVars, urlCount, revokedUrls, sessionVars, modalVars>>]_vars

C1_Witness ==
  /\ lastEvent.name = "generate" /\ user = Null
  /\ showLoginModal /\ pendingGenerate = "deferred"
  /\ fetchCount = 0 /\ Idle

C3_AtMostOneInFlight ==
  [][Len(calls') <= 1 /\ (fetchCount' # fetchCount => ~isGenerating)]_vars

C3_Witness ==
  /\ Len(calls) = 1 /\ isGenerating /\ fetchCount = 2
  /\ lastEvent.name = "select" /\ Len(selectedFiles) > 0

\* C4: a handleGenerate step taken with a session issues exactly one fetch;
\* isGenerating holds exactly while that call is outstanding; the step that
\* ends the call clears isGenerating and leaves exactly one of Succeeded, Failed.
C4_OneRequestOneOutcome ==
  [][/\ (IsEvent("generate") /\ user # Null) =>
          (fetchCount' = fetchCount + 1 /\ Len(calls') = Len(calls) + 1)
     /\ isGenerating' <=> (Len(calls') > 0)
     /\ (Len(calls') < Len(calls)) =>
          (~isGenerating' /\ (Succeeded' # Failed') /\ fetchCount' = fetchCount)]_vars

C4_Witness ==
  /\ lastEvent.name = "blobSettled" /\ lastEvent.outcome = "ok"
  /\ Succeeded /\ ~Failed /\ fetchCount = 1 /\ calls = <<>>

\* C5 as stated: every object URL that was created and is not the current
\* generatedPdfUrl has been passed to URL.revokeObjectURL.
C5_ReplacedUrlsReleased ==
  \A u \in 1..urlCount : u # generatedPdfUrl => u \in revokedUrls

\* C6 as stated: "Create Another" is offered in Succeeded and in Failed, and
\* after it ran the form is Idle with no selected files.
C6_ResetFromSucceededAndFailed ==
  /\ (Succeeded \/ Failed) => CreateAnotherAvailable
  /\ lastEvent.name = "reset" => (Idle /\ selectedFiles = <<>>)

\* C7: the dismissal step closes the Gate and issues no fetch, and for as
\* long as a deferred generate stays dismissed (no handleGenerate since) no
\* fetch is issued, whatever the session does.
C7_DismissNeverResumes ==
  [][/\ IsEvent("dismiss") =>
          (~showLoginModal' /\ fetchCount' = fetchCount /\ calls' = calls)
     /\ (pendingGenerate = "dismissed" /\ pendingGenerate' = "dismissed") =>
          (fetchCount' = fetchCount /\ calls' = calls)]_vars

C7_Witness ==
  /\ pendingGenerate = "dismissed" /\ ~showLoginModal
  /\ lastEvent.name = "authChange" /\ user # Null
  /\ fetchCount = 0 /\ Len(selectedFiles) > 0

\* C8: the step that ends a call: a response that is ok and whose body
\* arrives gives Succeeded with a URL never handed out before and no error;
\* a response that is not ok, or a rejection of fetch or of the body read,
\* gives Failed with GenerateFailedMessage and no URL.
C8_TerminalOutcome ==
  [][/\ (IsEvent("blobSettled") /\ lastEvent'.outcome = "ok") =>
          /\ Succeeded' /\ error' = Null
          /\ generatedPdfUrl' \notin 0..urlCount
          /\ generatedPdfUrl' \in 1..urlCount'
     /\ ((IsEvent("fetchSettled") /\ lastEvent'.outcome \in {"notOk", "rejected"})
           \/ (IsEvent("blobSettled") /\ lastEvent'.outcome = "rejected")) =>
          /\ Failed' /\ error' = "Failed to generate cheat sheet"
          /\ generatedPdfUrl' = NoUrl]_vars

C8_Witness ==
  /\ lastEvent.name = "blobSettled" /\ lastEvent.outcome = "ok"
  /\ generatedPdfUrl = 1 /\ error = Null /\ fetchCount = 2

\* C9: after handleFileChange the selection has the length of the FileList
\* it was given and the same file at every position (none for a null list).
C9_SelectionReplaced ==
  lastEvent.name = "select" =>
    LET fl == lastEvent.files IN
      IF fl.isNull THEN selectedFiles = <<>>
      ELSE /\ Len(selectedFiles) = fl.length
           /\ \A i \in 1..fl.length : selectedFiles[i] = fl.item[i - 1]

C9_Witness ==
  /\ lastEvent.name = "select"
  /\ Len(calls) = 1 /\ Len(calls[1].body) = 2 /\ calls[1].body[1].file = "lecture1.pdf"
  /\ selectedFiles = <<"lecture2.pdf">>

\* the friendly text the modal shows for each known code
FriendlyText ==
  [c \in {KnownCodes[i] : i \in 1..Len(KnownCodes)} |->
     CASE c = "auth/invalid-credential" -> "Invalid email or password. Please try again."
       [] c = "auth/user-not-found" -> "No account found with this email."
       [] c = "auth/wrong-password" -> "Incorrect password. Please try again."
       [] c = "auth/email-already-in-use" ->
            "This email is already registered. Try signing in instead."
       [] c = "auth/weak-password" -> "Password should be at least 6 characters."
       [] c = "auth/invalid-email" -> "Please enter a valid email address."
       [] c = "auth/popup-closed-by-user" -> "Sign-in cancelled. Please try again."]

CodesIn(msg) == {c \in DOMAIN FriendlyText : \E i \in 1..Len(msg) : msg[i] = c}

\* C10: the step that handles an {error} result leaves showLoginModal as it
\* was (onSuccess is not called), and sets the modal's error to the friendly
\* text of a code the message contains, or to the generic text when it
\* contains none; a message whose only code is auth/wrong-password gives
\* "Incorrect password. Please try again.".
C10_ErrorKeepsGateOpen ==
  [][IsEvent("authError") =>
       /\ showLoginModal' = showLoginModal /\ pendingGenerate' = pendingGenerate
       /\ LET codes == CodesIn(authCall.error) IN
            /\ codes = {} => modalError' = "Sign-in failed. Please try again."
            /\ codes # {} => \E c \in codes : modalError' = FriendlyText[c]
            /\ codes = {"auth/wrong-password"} =>
                 modalError' = "Incorrect password. Please try again."]_vars

C10_Witness ==
  /\ lastEvent.name = "authError" /\ showLoginModal
  /\ modalError = "Incorrect password. Please try again."
  /\ ~modalLoading /\ authCall = NoCall

\* C11 as stated: the Form's error goes from set to null only on a
\* handleGenerate or "Create Another" step, and the modal's error goes from
\* set to null only on a step that starts an authentication attempt.
C11_ClearedOnlyByRetryOrReset ==
  [][/\ (error # Null /\ error' = Null) => (IsEvent("generate") \/ IsEvent("reset"))
     /\ (modalError # Null /\ modalError' = Null) => IsEvent("authStart")]_vars

\* C11 amended: as stated for the Form; the modal's error goes from set to
\* null only on a step that starts an authentication attempt or on the
\* sign-in/sign-up toggle.
C11_ClearedOnlyByRetryResetOrToggle ==
  [][/\ (error # Null /\ error' = Null) => (IsEvent("generate") \/ IsEvent("reset"))
     /\ (modalError # Null /\ modalError' = Null) =>
          (IsEvent("authStart") \/ IsEvent("toggle"))]_vars

C11_Witness ==
  /\ lastEvent.name = "toggle" /\ lastEvent.hadError /\ modalError = Null
  /\ error = "Failed to generate cheat sheet" /\ showLoginModal

\* C12: a getAuthToken call never ends in a throw; called with no user it
\* returns null at once; called with a user it awaits getIdToken and then
\* returns null if that rejected and the token it resolved to otherwise.
C12_TokenAccessorNeverThrows ==
  [][/\ tokenCall'.stage # "thrown"
     /\ IsEvent("getAuthToken") =>
          IF user = Null
            THEN tokenCall' = [stage |-> "returned", value |-> Null]
            ELSE tokenCall'.stage = "pending"
     /\ IsEvent("idTokenSettled") =>
          /\ tokenCall'.stage = "returned"
          /\ lastEvent'.outcome = Rejected => tokenCall'.value = Null
          /\ lastEvent'.outcome \in Tokens => tokenCall'.value = lastEvent'.outcome]_vars

C12_Witness ==
  /\ lastEvent.name = "idTokenSettled" /\ lastEvent.outcome = Rejected
  /\ tokenCall = [stage |-> "returned", value |-> Null]

\* C13: loading starts true with no user exposed, turns false only on the
\* step that handles a notification, is false after every such step, never
\* turns true again, and no user is exposed while it is true.
C13_LoadingUntilFirstNotification ==
  [][/\ lastEvent.name = "init" => loading
     /\ (loading /\ ~loading') => IsEvent("authChange")
     /\ IsEvent("authChange") => ~loading'
     /\ ~loading => ~loading'
     /\ loading => user = Null
     /\ loading' => user' = Null]_vars

C13_Witness ==
  /\ lastEvent.name = "authChange" /\ ~loading
  /\ user = Null /\ idpUser = Null /\ modalLoading /\ authCall = NoCall

\* C14 as stated: while the Gate is Open and neither handleGoogleSignIn nor
\* handleEmailAuth is suspended at its await, the modal's loading is false.
C14_ControlsEnabledWhenIdle ==
  (showLoginModal /\ authCall = NoCall) => ~modalLoading

\* C15: the fetch a handleGenerate step issues carries one "files" part per
\* selected file, in selection order, and at least one; a call's body never
\* changes while it is suspended; a handleFileChange step leaves the calls
\* and the generation state as they were.
C15_PayloadIsSelectionAtGenerate ==
  [][/\ (IsEvent("generate") /\ user # Null) =>
          LET body == calls'[Len(calls')].body IN
            /\ Len(body) = Len(selectedFiles) /\ Len(body) > 0
            /\ \A i \in 1..Len(body) :
                 body[i].field = "files" /\ body[i].file = selectedFiles[i]
     /\ (Len(calls) > 0 /\ Len(calls') = Len(calls)) =>
          \A i \in 1..Len(calls) : calls'[i].body = calls[i].body
     /\ IsEvent("select") =>
          (calls' = calls /\ UNCHANGED <<isGenerating, error, generatedPdfUrl>>)]_vars

C15_Witness ==
  /\ lastEvent.name = "select" /\ selectedFiles = <<"lecture1.pdf">>
  /\ Len(calls) = 1 /\ calls[1].stage = "blob" /\ isGenerating
  /\ Len(calls[1].body) = 2
  /\ calls[1].body[1].file = "lecture2.pdf" /\ calls[1].body[2].file = "lecture1.pdf"
====
